---- MODULE Spec2Model ----
(***************************************************************************)
(* Protocol lifecycle engine of the file-server management API.           *)
(*                                                                         *)
(* The API process is one uvicorn worker (backend/api/main.py): the       *)
(* route handlers are `async def` functions without an await, so the      *)
(* event loop runs one handler at a time (variable req).  install_task    *)
(* and uninstall_task are plain functions handed to BackgroundTasks, so   *)
(* they run on the thread pool, concurrently with each other and with     *)
(* the handler on the event loop (variable jobs).  The protocols table    *)
(* is the shared store (variable db).                                     *)
(*                                                                         *)
(* update_protocol_status looks the row up by id, assigns the fields it    *)
(* was given and commits: one step on the stored row.                     *)
(*                                                                         *)
(* A plugin call has no effect on the modelled state, so a plugin call    *)
(* and the store write that follows it are one step; the read of the row  *)
(* at the top of a handler and the handler's later write are separate     *)
(* steps, so that job threads run in between.                             *)
(***************************************************************************)
EXTENDS Integers, Sequences, FiniteSets, TLC

VARIABLES db, req, jobs, nreq, host, call

vars == <<db, req, jobs, nreq, host, call>>

\* ------------------------------------------------------------------ bounds
\* number of requests the callers issue in one run
MaxRequests == 3

\* number of requests the callers issue in one run under fair scheduling
MaxFairRequests == 2

\* ------------------------------------------------------- ProtocolStatus
RUNNING == "running"
STOPPED == "stopped"
ERROR == "error"
INSTALLING == "installing"
UNINSTALLED == "uninstalled"

ProtocolStatus == {RUNNING, STOPPED, ERROR, INSTALLING, UNINSTALLED}

\* Python None for a text / timestamp column
Null == "null"

\* Python None / a value for an optional bool argument
None == {}
Some(b) == {b}

\* ------------------------------------------------------------ the catalog
\* the rows of DEFAULT_PROTOCOLS this model follows: one real plugin, one stub
Protocols == {"ftp", "nfs"}

\* the names of the seven rows of DEFAULT_PROTOCOLS
CatalogNames == {"ftp", "sftp", "nfs", "smb", "webdav", "s3", "nextcloud"}

DEFAULT_PROTOCOLS ==
    [p \in CatalogNames |->
        [name |-> p,
         port |-> CASE p = "ftp" -> 21
                    [] p = "sftp" -> 22
                    [] p = "nfs" -> 2049
                    [] p = "smb" -> 445
                    [] p = "webdav" -> 8080
                    [] p = "s3" -> 9000
                    [] OTHER -> 8081,
         status |-> UNINSTALLED]]

\* Protocol(**proto_data): the column defaults fill in the rest
Protocol(proto_data) ==
    [name |-> proto_data.name,
     is_enabled |-> FALSE,
     is_installed |-> FALSE,
     port |-> proto_data.port,
     ssl_enabled |-> FALSE,
     config_json |-> Null,
     status |-> proto_data.status,
     error_message |-> Null,
     installed_at |-> Null]

\* ---------------------------------------------------------------- plugins
\* what a plugin capability can do: return True, return False, or raise
Outcomes == {"true", "false", "raise"}

\* PluginOutcomes with a stub whose detect_existing can find a service
PluginOutcomes_stub_detects(p, capability) ==
    IF p = "nfs" /\ capability # "detect_existing" THEN {"false"} ELSE Outcomes

\* NFSInstaller is a stub: every capability returns False
\* (detect_existing returns (False, None)); the other plugins run host
\* commands and write files, which can succeed, fail or raise.
PluginOutcomes(p, capability) ==
    IF p = "nfs" THEN {"false"} ELSE Outcomes

\* ------------------------------------------------------------- the host
\* the package managers install_packages probes for
PackageManagers == {"apt-get", "yum", "dnf"}

\* the block _configure_linux_sftp appends to sshd_config; it holds the line
\* "# File Server SFTP Configuration"
sftp_config == "File Server SFTP Configuration"

\* what sshd_config holds, block by block, before the first configure call:
\* no file, the distribution's file, or the file an earlier run configured
SshdConfigs == {<<>>, <<"sshd_config">>, <<"sshd_config", sftp_config>>}

\* a Linux host: the package managers on its PATH, the exit status of a
\* package manager run, and sshd_config with whether this process can read
\* and write it
Hosts ==
    [binaries : SUBSET PackageManagers,
     returncode : {0, 1},
     sshd_config : SshdConfigs,
     readable : BOOLEAN,
     writable : BOOLEAN]

\* the host of a lifecycle run: a Debian machine with a stock sshd_config
ThisHost ==
    [binaries |-> {"apt-get"}, returncode |-> 0,
     sshd_config |-> <<"sshd_config">>, readable |-> TRUE, writable |-> TRUE]

\* no registry, executor or plugin call was followed yet
NoCall == [fn |-> "none", args |-> <<>>, result |-> "none", trace |-> <<>>]

\* ------------------------------------------------- protocol_service
\* update_protocol_status that assigns error_message only when one is given
update_protocol_status_keeps_message(row, status, is_installed, is_enabled, error_message) ==
    [row EXCEPT
        !.status = status,
        !.is_installed = IF is_installed # None
                         THEN CHOOSE b \in is_installed : TRUE ELSE @,
        !.is_enabled = IF is_enabled # None
                       THEN CHOOSE b \in is_enabled : TRUE ELSE @,
        !.error_message = IF error_message # Null THEN error_message ELSE @,
        !.installed_at = IF status = RUNNING /\ is_installed = Some(TRUE)
                         THEN "utcnow" ELSE @]

update_protocol_status(row, status, is_installed, is_enabled, error_message) ==
    [row EXCEPT
        !.status = status,
        !.is_installed = IF is_installed # None
                         THEN CHOOSE b \in is_installed : TRUE ELSE @,
        !.is_enabled = IF is_enabled # None
                       THEN CHOOSE b \in is_enabled : TRUE ELSE @,
        !.error_message = error_message,
        !.installed_at = IF status = RUNNING /\ is_installed = Some(TRUE)
                         THEN "utcnow" ELSE @]

\* ------------------------------------------------------------ the state
\* the handler on the event loop: its operation, the row it read at its top
\* (protocol), where it stands, its response and the capabilities it called;
\* an idle handler keeps the last response
IdleReq == [op |-> "none", proto |-> "none", protocol |-> {}, pc |-> "idle",
            result |-> "none", calls |-> <<>>]

Init ==
    /\ db = [p \in Protocols |-> Protocol(DEFAULT_PROTOCOLS[p])]
    /\ req = IdleReq
    /\ jobs = <<>>
    /\ nreq = 0
    /\ host = ThisHost
    /\ call = NoCall

\* a request enters a handler; get_protocol_by_name has read its row
Enter(op, p, pc) ==
    [op |-> op, proto |-> p, protocol |-> {db[p]}, pc |-> pc,
     result |-> "none", calls |-> <<>>]

\* the handler returns or raises
Respond(result) == [req EXCEPT !.pc = "idle", !.result = result]

CanEnter == req.pc = "idle" /\ nreq < MaxRequests

\* a background job: its kind, its protocol, the capability it calls next,
\* the capabilities it called with their answers, and the row as its last
\* write left it
NewJob(kind, p) ==
    [kind |-> kind, proto |-> p,
     pc |-> IF kind = "install" THEN "detect_existing" ELSE "stop_service",
     calls |-> <<>>, final |-> {}]

\* ------------------------------------------------------ install_protocol
\* install_protocol_check that turns a request away while the row reads
\* INSTALLING
install_protocol_check_rejects_installing(p) ==
    /\ CanEnter
    /\ nreq' = nreq + 1
    /\ IF db[p].is_installed
       THEN req' = [Enter("install", p, "idle") EXCEPT !.result = "AlreadyInstalled"]
       ELSE IF db[p].status = INSTALLING
            THEN req' = [Enter("install", p, "idle") EXCEPT !.result = "Busy"]
            ELSE req' = Enter("install", p, "mark")
    /\ UNCHANGED <<db, jobs, host, call>>

\* lines 79-84: read the row, short-circuit when already installed
install_protocol_check(p) ==
    /\ CanEnter
    /\ nreq' = nreq + 1
    /\ IF db[p].is_installed
       THEN req' = [Enter("install", p, "idle") EXCEPT !.result = "AlreadyInstalled"]
       ELSE req' = Enter("install", p, "mark")
    /\ UNCHANGED <<db, jobs, host, call>>

\* lines 86-143: mark INSTALLING, hand install_task to the thread pool
install_protocol_mark ==
    /\ req.pc = "mark" /\ req.op = "install"
    /\ db' = [db EXCEPT ![req.proto] =
                update_protocol_status(@, INSTALLING, None, None, Null)]
    /\ jobs' = Append(jobs, NewJob("install", req.proto))
    /\ req' = Respond("JobAccepted")
    /\ UNCHANGED <<nreq, host, call>>

\* ---------------------------------------------------------- install_task
\* install_task_next without the `return` after the already-present write
install_task_next_no_return(pc, o) ==
    CASE pc = "detect_existing" -> IF o = "raise" THEN "done" ELSE "install_packages"
      [] pc = "install_packages" -> IF o = "true" THEN "configure" ELSE "done"
      [] pc = "configure" -> IF o = "true" THEN "start_service" ELSE "done"
      [] OTHER -> "done"

\* the step the job takes after a capability answered o; "done" ends the job
install_task_next(pc, o) ==
    CASE pc = "detect_existing" -> IF o = "false" THEN "install_packages" ELSE "done"
      [] pc = "install_packages" -> IF o = "true" THEN "configure" ELSE "done"
      [] pc = "configure" -> IF o = "true" THEN "start_service" ELSE "done"
      [] OTHER -> "done"

\* install_task_write that returns without a write when install_packages fails
install_task_write_silent_failure(row, pc, o) ==
    IF o = "raise"
    THEN update_protocol_status(row, ERROR, None, None, Null)
    ELSE CASE pc = "detect_existing" ->
                IF o = "true"
                THEN update_protocol_status(row, STOPPED, Some(TRUE), None, Null)
                ELSE row
           [] pc = "install_packages" -> row
           [] pc = "configure" ->
                IF o = "false"
                THEN update_protocol_status(row, ERROR, None, None, Null)
                ELSE row
           [] OTHER ->
                IF o = "true"
                THEN update_protocol_status(row, RUNNING, Some(TRUE), Some(TRUE), Null)
                ELSE update_protocol_status(row, STOPPED, Some(TRUE), Some(FALSE), Null)

\* install_task_write whose RUNNING write leaves out is_enabled=True
install_task_write_no_enable(row, pc, o) ==
    IF o = "raise"
    THEN update_protocol_status(row, ERROR, None, None, Null)
    ELSE CASE pc = "detect_existing" ->
                IF o = "true"
                THEN update_protocol_status(row, STOPPED, Some(TRUE), None, Null)
                ELSE row
           [] pc = "install_packages" ->
                IF o = "false"
                THEN update_protocol_status(row, ERROR, None, None, Null)
                ELSE row
           [] pc = "configure" ->
                IF o = "false"
                THEN update_protocol_status(row, ERROR, None, None, Null)
                ELSE row
           [] OTHER ->
                IF o = "true"
                THEN update_protocol_status(row, RUNNING, Some(TRUE), None, Null)
                ELSE update_protocol_status(row, STOPPED, Some(TRUE), Some(FALSE), Null)

\* the row after the write the job makes when a capability answered o
install_task_write(row, pc, o) ==
    IF o = "raise"
    THEN update_protocol_status(row, ERROR, None, None, Null)
    ELSE CASE pc = "detect_existing" ->
                IF o = "true"
                THEN update_protocol_status(row, STOPPED, Some(TRUE), None, Null)
                ELSE row
           [] pc = "install_packages" ->
                IF o = "false"
                THEN update_protocol_status(row, ERROR, None, None, Null)
                ELSE row
           [] pc = "configure" ->
                IF o = "false"
                THEN update_protocol_status(row, ERROR, None, None, Null)
                ELSE row
           [] OTHER ->
                IF o = "true"
                THEN update_protocol_status(row, RUNNING, Some(TRUE), Some(TRUE), Null)
                ELSE update_protocol_status(row, STOPPED, Some(TRUE), Some(FALSE), Null)

\* ---------------------------------------------------------- uninstall_task
\* installer.stop_service() is called for its effect only: its result is dropped
uninstall_task_next(pc, o) ==
    IF pc = "stop_service" /\ o # "raise" THEN "uninstall" ELSE "done"

\* uninstall_task_write whose UNINSTALLED write leaves out is_enabled=False
uninstall_task_write_keeps_enabled(row, pc, o) ==
    IF o = "raise"
    THEN update_protocol_status(row, ERROR, None, None, Null)
    ELSE IF pc = "stop_service"
         THEN row
         ELSE IF o = "true"
              THEN update_protocol_status(row, UNINSTALLED, Some(FALSE), None, Null)
              ELSE update_protocol_status(row, ERROR, None, None, Null)

\* uninstall_task_write whose failure write also clears is_installed
uninstall_task_write_failure_clears_installed(row, pc, o) ==
    IF o = "raise"
    THEN update_protocol_status(row, ERROR, Some(FALSE), None, Null)
    ELSE IF pc = "stop_service"
         THEN row
         ELSE IF o = "true"
              THEN update_protocol_status(row, UNINSTALLED, Some(FALSE), Some(FALSE), Null)
              ELSE update_protocol_status(row, ERROR, Some(FALSE), None, Null)

\* the row after the write the job makes when a capability answered o
uninstall_task_write(row, pc, o) ==
    IF o = "raise"
    THEN update_protocol_status(row, ERROR, None, None, Null)
    ELSE IF pc = "stop_service"
         THEN row
         ELSE IF o = "true"
              THEN update_protocol_status(row, UNINSTALLED, Some(FALSE), Some(FALSE), Null)
              ELSE update_protocol_status(row, ERROR, None, None, Null)

\* one capability call of background job j, and the write that follows it
JobStep(j) ==
    \E o \in PluginOutcomes(jobs[j].proto, jobs[j].pc) :
        LET p == jobs[j].proto
            pc == jobs[j].pc
            row == IF jobs[j].kind = "install"
                   THEN install_task_write(db[p], pc, o)
                   ELSE uninstall_task_write(db[p], pc, o)
            nxt == IF jobs[j].kind = "install"
                   THEN install_task_next(pc, o)
                   ELSE uninstall_task_next(pc, o)
        IN /\ db' = [db EXCEPT ![p] = row]
           /\ jobs' = [jobs EXCEPT ![j] =
                        [@ EXCEPT !.pc = nxt,
                                  !.calls = Append(@, <<pc, o>>),
                                  !.final = IF nxt = "done" THEN {row} ELSE {}]]

\* job j is of this kind and calls this capability next
At(j, kind, pc) ==
    j \in DOMAIN jobs /\ jobs[j].kind = kind /\ jobs[j].pc = pc

install_task_detect_existing(j) ==
    /\ At(j, "install", "detect_existing")
    /\ JobStep(j)
    /\ UNCHANGED <<req, nreq, host, call>>

install_task_install_packages(j) ==
    /\ At(j, "install", "install_packages")
    /\ JobStep(j)
    /\ UNCHANGED <<req, nreq, host, call>>

install_task_configure(j) ==
    /\ At(j, "install", "configure")
    /\ JobStep(j)
    /\ UNCHANGED <<req, nreq, host, call>>

install_task_start_service(j) ==
    /\ At(j, "install", "start_service")
    /\ JobStep(j)
    /\ UNCHANGED <<req, nreq, host, call>>

uninstall_task_stop_service(j) ==
    /\ At(j, "uninstall", "stop_service")
    /\ JobStep(j)
    /\ UNCHANGED <<req, nreq, host, call>>

uninstall_task_uninstall(j) ==
    /\ At(j, "uninstall", "uninstall")
    /\ JobStep(j)
    /\ UNCHANGED <<req, nreq, host, call>>

\* ---------------------------------------------------- uninstall_protocol
\* lines 311-316: read the row, no-op when not installed
uninstall_protocol_check(p) ==
    /\ CanEnter
    /\ nreq' = nreq + 1
    /\ IF ~db[p].is_installed
       THEN req' = [Enter("uninstall", p, "idle") EXCEPT !.result = "NotInstalled"]
       ELSE req' = Enter("uninstall", p, "mark")
    /\ UNCHANGED <<db, jobs, host, call>>

\* lines 318-350: mark INSTALLING (reused for uninstalling), schedule the job
uninstall_protocol_mark ==
    /\ req.pc = "mark" /\ req.op = "uninstall"
    /\ db' = [db EXCEPT ![req.proto] =
                update_protocol_status(@, INSTALLING, None, None, Null)]
    /\ jobs' = Append(jobs, NewJob("uninstall", req.proto))
    /\ req' = Respond("JobAccepted")
    /\ UNCHANGED <<nreq, host, call>>

\* ------------------------------------- start / stop / restart _protocol
\* ServiceCheck without the `if not protocol.is_installed` test
ServiceCheck_no_precondition(op, p) ==
    /\ nreq' = nreq + 1
    /\ req' = Enter(op, p, "act")
    /\ UNCHANGED <<db, jobs, host, call>>

\* the precondition of the three synchronous handlers (lines 157, 185, 286)
ServiceCheck(op, p) ==
    /\ nreq' = nreq + 1
    /\ IF ~db[p].is_installed
       THEN req' = [Enter(op, p, "idle") EXCEPT !.result = "PreconditionFailed"]
       ELSE req' = Enter(op, p, "act")
    /\ UNCHANGED <<db, jobs, host, call>>

\* the arguments of the handler's update_protocol_status call
ServiceStatus(op) == IF op = "stop" THEN STOPPED ELSE RUNNING
\* ServiceEnabled with stop passing is_enabled=True like the other two
ServiceEnabled_always_true(op) == Some(TRUE)

ServiceEnabled(op) == IF op = "stop" THEN Some(FALSE) ELSE Some(TRUE)

\* the capability the handler calls
ServiceCapability(op) == op \o "_service"

\* ServiceAct that records ERROR when the capability returns False or raises
ServiceAct_failure_writes_error(op) ==
    /\ \E o \in PluginOutcomes(req.proto, ServiceCapability(op)) :
        /\ req' = [Respond(IF o = "true" THEN "Success" ELSE "Failure")
                     EXCEPT !.calls = Append(@, <<ServiceCapability(op), o>>)]
        /\ db' = [db EXCEPT ![req.proto] =
                    IF o = "true"
                    THEN update_protocol_status(@, ServiceStatus(op), None,
                                                ServiceEnabled(op), Null)
                    ELSE update_protocol_status(@, ERROR, None, None, Null)]
    /\ UNCHANGED <<jobs, nreq, host, call>>

\* the try block: call the capability; on True write the status and return,
\* on False or on an exception answer 500 without a write
ServiceAct(op) ==
    /\ \E o \in PluginOutcomes(req.proto, ServiceCapability(op)) :
        /\ req' = [Respond(IF o = "true" THEN "Success" ELSE "Failure")
                     EXCEPT !.calls = Append(@, <<ServiceCapability(op), o>>)]
        /\ db' = IF o = "true"
                 THEN [db EXCEPT ![req.proto] =
                         update_protocol_status(@, ServiceStatus(op), None,
                                                ServiceEnabled(op), Null)]
                 ELSE db
    /\ UNCHANGED <<jobs, nreq, host, call>>

\* the handler of this operation stands before its try block
Acting(op) == req.pc = "act" /\ req.op = op

start_protocol_check(p) ==
    /\ CanEnter
    /\ ServiceCheck("start", p)

start_protocol_act ==
    /\ Acting("start")
    /\ ServiceAct("start")

stop_protocol_check(p) ==
    /\ CanEnter
    /\ ServiceCheck("stop", p)

stop_protocol_act ==
    /\ Acting("stop")
    /\ ServiceAct("stop")

restart_protocol_check(p) ==
    /\ CanEnter
    /\ ServiceCheck("restart", p)

restart_protocol_act ==
    /\ Acting("restart")
    /\ ServiceAct("restart")

\* ------------------------------------------------ update_protocol_config
\* the bodies of the config requests the callers send (ProtocolUpdate):
\* nothing set, or a new config with a new port and ssl switched on
ConfigUpdates ==
    {[config_json |-> Null, port |-> None, ssl_enabled |-> None],
     [config_json |-> "new_config", port |-> Some(2121), ssl_enabled |-> Some(TRUE)]}

\* protocol_service.update_protocol_config: config is always assigned,
\* port and ssl_enabled when they are not None
protocol_service_update_protocol_config(row, config, port, ssl_enabled) ==
    [row EXCEPT
        !.config_json = config,
        !.port = IF port # None THEN CHOOSE n \in port : TRUE ELSE @,
        !.ssl_enabled = IF ssl_enabled # None
                        THEN CHOOSE b \in ssl_enabled : TRUE ELSE @]

\* lines 252-258: the values handed to the service fall back to the row's own
StoredConfig(row, u) ==
    protocol_service_update_protocol_config(
        row,
        IF u.config_json # Null THEN u.config_json ELSE row.config_json,
        IF u.port # None THEN u.port ELSE Some(row.port),
        IF u.ssl_enabled # None THEN u.ssl_enabled ELSE Some(row.ssl_enabled))

\* lines 248-261: store the new values, then decide whether to reconfigure;
\* req.protocol keeps the row as get_protocol_by_name read it
update_protocol_config_store(p, u) ==
    /\ CanEnter
    /\ nreq' = nreq + 1
    /\ db' = [db EXCEPT ![p] = StoredConfig(@, u)]
    /\ req' = [op |-> "update_config", proto |-> p, protocol |-> {db[p]},
               pc |-> IF db'[p].is_installed /\ db'[p].status = RUNNING
                      THEN "configure" ELSE "idle",
               result |-> IF db'[p].is_installed /\ db'[p].status = RUNNING
                          THEN "none" ELSE "ProtocolRecord",
               calls |-> <<>>]
    /\ UNCHANGED <<jobs, host, call>>

\* lines 262-265: installer.configure(config); False or an exception is a 500
update_protocol_config_configure ==
    /\ req.op = "update_config" /\ req.pc = "configure"
    /\ \E o \in PluginOutcomes(req.proto, "configure") :
        req' = [req EXCEPT
                  !.calls = Append(@, <<"configure", o>>),
                  !.pc = IF o = "true" THEN "restart_service" ELSE "idle",
                  !.result = IF o = "true" THEN "none" ELSE "ApplyFailure"]
    /\ UNCHANGED <<db, jobs, nreq, host, call>>

\* lines 267-272: installer.restart_service(), its result dropped; an
\* exception is a 500, otherwise the updated record is returned
update_protocol_config_restart ==
    /\ req.op = "update_config" /\ req.pc = "restart_service"
    /\ \E o \in PluginOutcomes(req.proto, "restart_service") :
        req' = [req EXCEPT
                  !.calls = Append(@, <<"restart_service", o>>),
                  !.pc = "idle",
                  !.result = IF o = "raise" THEN "ApplyFailure" ELSE "ProtocolRecord"]
    /\ UNCHANGED <<db, jobs, nreq, host, call>>

JobIds == 1..MaxRequests

Next ==
    \/ \E p \in Protocols : install_protocol_check(p)
    \/ install_protocol_mark
    \/ \E j \in JobIds : install_task_detect_existing(j)
    \/ \E j \in JobIds : install_task_install_packages(j)
    \/ \E j \in JobIds : install_task_configure(j)
    \/ \E j \in JobIds : install_task_start_service(j)
    \/ \E p \in Protocols : uninstall_protocol_check(p)
    \/ uninstall_protocol_mark
    \/ \E j \in JobIds : uninstall_task_stop_service(j)
    \/ \E j \in JobIds : uninstall_task_uninstall(j)
    \/ \E p \in Protocols : start_protocol_check(p)
    \/ start_protocol_act
    \/ \E p \in Protocols : stop_protocol_check(p)
    \/ stop_protocol_act
    \/ \E p \in Protocols : restart_protocol_check(p)
    \/ restart_protocol_act
    \/ \E p \in Protocols, u \in ConfigUpdates : update_protocol_config_store(p, u)
    \/ update_protocol_config_configure
    \/ update_protocol_config_restart

Spec == Init /\ [][Next]_vars

\* any step of background job j
JobRun(j) ==
    \/ install_task_detect_existing(j)
    \/ install_task_install_packages(j)
    \/ install_task_configure(j)
    \/ install_task_start_service(j)
    \/ uninstall_task_stop_service(j)
    \/ uninstall_task_uninstall(j)

\* the thread pool runs every background job it was handed, and plugin
\* calls return: a job that can take a step takes it
JobFairness == \A j \in JobIds : WF_vars(JobRun(j))

\* a fair run starts with the request budget cut down to MaxFairRequests
FairInit ==
    /\ db = [p \in Protocols |-> Protocol(DEFAULT_PROTOCOLS[p])]
    /\ req = IdleReq
    /\ jobs = <<>>
    /\ nreq = IF MaxRequests > MaxFairRequests
              THEN MaxRequests - MaxFairRequests ELSE 0
    /\ host = ThisHost
    /\ call = NoCall

FairSpec == FairInit /\ [][Next]_vars /\ JobFairness

\* ---------------------------------- update_protocol_status on any row
\* the rows update_protocol_status can be handed: any status and flags,
\* with or without an error_message left by an earlier writer
StoredRows(p) ==
    {[Protocol(DEFAULT_PROTOCOLS[p]) EXCEPT
         !.status = s, !.is_installed = i, !.is_enabled = e, !.error_message = m] :
       s \in ProtocolStatus, i \in BOOLEAN, e \in BOOLEAN,
       m \in {Null, "Installation failed"}}

\* the arguments (status, is_installed, is_enabled) of every call of
\* update_protocol_status in routes/protocols.py; none passes error_message
StatusCalls ==
    {<<INSTALLING, None, None>>,
     <<STOPPED, Some(TRUE), None>>,
     <<ERROR, None, None>>,
     <<RUNNING, Some(TRUE), Some(TRUE)>>,
     <<STOPPED, Some(TRUE), Some(FALSE)>>,
     <<RUNNING, None, Some(TRUE)>>,
     <<STOPPED, None, Some(FALSE)>>,
     <<UNINSTALLED, Some(FALSE), Some(FALSE)>>}

StatusInit ==
    /\ db \in [Protocols -> UNION {StoredRows(p) : p \in Protocols}]
    /\ \A p \in Protocols : db[p].name = p
    /\ req = IdleReq
    /\ jobs = <<>>
    /\ nreq = 0
    /\ host = ThisHost
    /\ call = NoCall

\* one call of update_protocol_status; req keeps which row it was applied to
\* and the row as it was before
apply_update_protocol_status ==
    \E p \in Protocols, c \in StatusCalls :
        /\ db' = [db EXCEPT ![p] = update_protocol_status(@, c[1], c[2], c[3], Null)]
        /\ req' = [IdleReq EXCEPT !.op = "update_protocol_status",
                                  !.proto = p, !.protocol = {db[p]}]
        /\ UNCHANGED <<jobs, nreq, host, call>>

StatusNext == apply_update_protocol_status

StatusSpec == StatusInit /\ [][StatusNext]_vars

\* ------------------------------------------------ get_protocol_installer
\* installer_map: the module and the class each identifier is mapped to
installer_map ==
    [p \in CatalogNames |->
        CASE p = "ftp" -> <<"backend.installers.ftp", "FTPInstaller">>
          [] p = "sftp" -> <<"backend.installers.sftp", "SFTPInstaller">>
          [] p = "nfs" -> <<"backend.installers.nfs", "NFSInstaller">>
          [] p = "smb" -> <<"backend.installers.smb", "SMBInstaller">>
          [] p = "webdav" -> <<"backend.installers.webdav", "WebDAVInstaller">>
          [] p = "s3" -> <<"backend.installers.s3", "S3Installer">>
          [] OTHER -> <<"backend.installers.nextcloud", "NextCloudInstaller">>]

\* the abstract methods of ProtocolInstaller
Capabilities ==
    {"detect_existing", "install_packages", "configure", "start_service",
     "stop_service", "restart_service", "get_status", "uninstall"}

\* the modules backend/installers holds next to base.py, with the class each
\* defines and the capabilities that class implements
InstallerModules ==
    [m \in {"backend.installers.ftp", "backend.installers.sftp",
            "backend.installers.nfs", "backend.installers.smb",
            "backend.installers.s3"} |->
        [class |-> CASE m = "backend.installers.ftp" -> "FTPInstaller"
                     [] m = "backend.installers.sftp" -> "SFTPInstaller"
                     [] m = "backend.installers.nfs" -> "NFSInstaller"
                     [] m = "backend.installers.smb" -> "SMBInstaller"
                     [] OTHER -> "S3Installer",
         methods |-> Capabilities]]

\* the identifiers the registry is asked for: the catalog and a stranger
RegistryNames == CatalogNames \cup {"gopher"}

\* the exception raised, or the instance with the capabilities it implements
get_protocol_installer(protocol_name) ==
    IF protocol_name \notin DOMAIN installer_map
    THEN [raised |-> "ValueError: Unknown protocol", methods |-> {}]
    ELSE LET module_name == installer_map[protocol_name][1]
             class_name == installer_map[protocol_name][2]
         IN IF module_name \notin DOMAIN InstallerModules
            THEN [raised |-> "ModuleNotFoundError", methods |-> {}]
            ELSE IF InstallerModules[module_name].class # class_name
            THEN [raised |-> "AttributeError", methods |-> {}]
            ELSE IF Capabilities \ InstallerModules[module_name].methods # {}
            THEN [raised |-> "TypeError", methods |-> {}]
            ELSE [raised |-> "none",
                  methods |-> InstallerModules[module_name].methods]

\* ----------------------------------------------------------- run_command
\* the commands install_packages hands to run_command
Commands ==
    {<<"which", b>> : b \in PackageManagers}
    \cup {<<b, "install">> : b \in PackageManagers}
    \cup {<<"apt-get", "update">>}

\* subprocess.run on host h: a binary that is not on the PATH is a
\* FileNotFoundError; `which` is always there and exits 0 when it finds
\* its argument; a package manager exits with the host's status
Exec(h, command) ==
    IF command[1] = "which"
    THEN [found |-> TRUE,
          returncode |-> IF command[2] \in h.binaries THEN 0 ELSE 1,
          stdout |-> IF command[2] \in h.binaries THEN command[2] ELSE "",
          stderr |-> ""]
    ELSE [found |-> command[1] \in h.binaries,
          returncode |-> h.returncode,
          stdout |-> "stdout", stderr |-> "stderr"]

\* run_command: subprocess.run(check=check) raises CalledProcessError only
\* when check is set, and only that exception is caught
run_command(proc, check) ==
    IF ~proc.found
    THEN [success |-> "raise", stdout |-> "", stderr |-> ""]
    ELSE IF check /\ proc.returncode # 0
         THEN [success |-> "false", stdout |-> proc.stdout, stderr |-> proc.stderr]
         ELSE [success |-> "true", stdout |-> proc.stdout, stderr |-> proc.stderr]

\* ------------------------------------------- FTPInstaller.install_packages
\* run_command(["which", b], check=False)[0]
Probe(h, b) == run_command(Exec(h, <<"which", b>>), FALSE).success

\* the branch of one package manager: its commands run with check=False,
\* the success of the last one is returned; a raise leaves the method
Branch(h, b) ==
    LET cmds == IF b = "apt-get"
                THEN << <<"apt-get", "update">>, <<"apt-get", "install">> >>
                ELSE << <<b, "install">> >>
        ran == [i \in DOMAIN cmds |-> run_command(Exec(h, cmds[i]), FALSE).success]
    IN [manager |-> b,
        result |-> IF \E i \in DOMAIN cmds : ran[i] = "raise"
                   THEN "raise" ELSE ran[Len(cmds)]]

\* the Linux branch: the package manager used and what the method returns
install_packages(h) ==
    IF Probe(h, "apt-get") = "true" THEN Branch(h, "apt-get")
    ELSE IF Probe(h, "yum") = "true" THEN Branch(h, "yum")
    ELSE IF Probe(h, "dnf") = "true" THEN Branch(h, "dnf")
    ELSE [manager |-> "none", result |-> "false"]

\* ---------------------------------- SFTPInstaller._configure_linux_sftp
\* open(config_path).read(); the bare except turns a failure into ""
ReadConfig(h) == IF h.readable THEN h.sshd_config ELSE <<>>

\* "File Server SFTP Configuration" in content
Contains(content, block) == \E i \in DOMAIN content : content[i] = block

\* write_config_file: the file as the call leaves it, and what it returns
write_config_file(h, content) ==
    IF h.writable
    THEN [ok |-> TRUE, sshd_config |-> content]
    ELSE [ok |-> FALSE, sshd_config |-> h.sshd_config]

\* configure_linux_sftp that appends the block without looking for it
configure_linux_sftp_appends(h) ==
    LET existing_config == ReadConfig(h)
        written == write_config_file(h, Append(existing_config, sftp_config))
    IN [result |-> IF written.ok THEN "true" ELSE "false",
        sshd_config |-> written.sshd_config]

\* the file after the call and what the call returns
configure_linux_sftp(h) ==
    LET existing_config == ReadConfig(h)
        written == write_config_file(h, Append(existing_config, sftp_config))
    IN IF ~Contains(existing_config, sftp_config)
       THEN [result |-> IF written.ok THEN "true" ELSE "false",
             sshd_config |-> written.sshd_config]
       ELSE [result |-> "true", sshd_config |-> h.sshd_config]

\* --------------------------------- the registry and the plugins on a host
InstallerInit ==
    /\ db = [p \in Protocols |-> Protocol(DEFAULT_PROTOCOLS[p])]
    /\ req = IdleReq
    /\ jobs = <<>>
    /\ nreq = 0
    /\ host \in Hosts
    /\ call = NoCall

get_protocol_installer_call ==
    /\ \E protocol_name \in RegistryNames :
        call' = [fn |-> "get_protocol_installer", args |-> <<protocol_name>>,
                 result |-> get_protocol_installer(protocol_name),
                 trace |-> <<>>]
    /\ UNCHANGED <<db, req, jobs, nreq, host>>

\* trace keeps what subprocess.run met
run_command_call ==
    /\ \E command \in Commands, check \in BOOLEAN :
        call' = [fn |-> "run_command", args |-> <<command, check>>,
                 result |-> run_command(Exec(host, command), check),
                 trace |-> <<Exec(host, command)>>]
    /\ UNCHANGED <<db, req, jobs, nreq, host>>

install_packages_call ==
    /\ call' = [fn |-> "install_packages", args |-> <<>>,
                result |-> install_packages(host), trace |-> <<>>]
    /\ UNCHANGED <<db, req, jobs, nreq, host>>

\* nreq counts the configure calls made on this host
sftp_configure_call ==
    /\ nreq < MaxRequests
    /\ nreq' = nreq + 1
    /\ host' = [host EXCEPT !.sshd_config = configure_linux_sftp(host).sshd_config]
    /\ call' = [fn |-> "configure", args |-> <<>>,
                result |-> configure_linux_sftp(host).result, trace |-> <<>>]
    /\ UNCHANGED <<db, req, jobs>>

InstallerNext ==
    \/ get_protocol_installer_call
    \/ run_command_call
    \/ install_packages_call
    \/ sftp_configure_call

InstallerSpec == InstallerInit /\ [][InstallerNext]_vars

\* ---------------------------------------------------- get_protocol_status
\* the status the handler answers for the row it read, when
\* installer.get_status() did o: UNINSTALLED for a row that is not
\* installed, ERROR when the call raised, the row's status otherwise
StatusResponse(row, o) ==
    IF ~row.is_installed THEN UNINSTALLED
    ELSE IF o = "raise" THEN ERROR
    ELSE row.status

\* lines 202-237: one handler without a write; get_status is called only
\* for an installed protocol
get_protocol_status(p) ==
    /\ CanEnter
    /\ nreq' = nreq + 1
    /\ \E o \in PluginOutcomes(p, "get_status") :
        req' = [Enter("status", p, "idle") EXCEPT
                  !.result = StatusResponse(db[p], o),
                  !.calls = IF db[p].is_installed
                            THEN << <<"get_status", o>> >> ELSE <<>>]
    /\ UNCHANGED <<db, jobs, host, call>>

\* ----------------------------------------------------- initialize_protocols
\* a protocols table without rows
EmptyStore == <<>>

\* initialize_protocols that writes the defaults over the rows it finds
initialize_protocols_resets(store, defaults) ==
    [n \in DOMAIN store \cup DOMAIN defaults |->
        IF n \in DOMAIN defaults THEN Protocol(defaults[n]) ELSE store[n]]

\* for each proto_data: add Protocol(**proto_data) unless a row of that name
\* exists; rows are keyed by name (the column is unique)
initialize_protocols(store, defaults) ==
    [n \in DOMAIN store \cup DOMAIN defaults |->
        IF n \in DOMAIN store THEN store[n] ELSE Protocol(defaults[n])]

\* the rows of DEFAULT_PROTOCOLS this model follows
FollowedDefaults == [p \in Protocols |-> DEFAULT_PROTOCOLS[p]]

\* the handler state right after lifespan startup
Started == [IdleReq EXCEPT !.op = "startup"]

\* the process stops at any moment and is started again: the handler and the
\* background jobs of the old process are gone, the store stays, and the
\* lifespan startup seeds it again
process_restart ==
    /\ db' = initialize_protocols(db, FollowedDefaults)
    /\ req' = Started
    /\ jobs' = <<>>
    /\ UNCHANGED <<nreq, host, call>>

\* first boot on an empty store, with the request budget of FairInit
ServerInit ==
    /\ db = initialize_protocols(EmptyStore, FollowedDefaults)
    /\ req = Started
    /\ jobs = <<>>
    /\ nreq = IF MaxRequests > MaxFairRequests
              THEN MaxRequests - MaxFairRequests ELSE 0
    /\ host = ThisHost
    /\ call = NoCall

ServerNext ==
    \/ Next
    \/ \E p \in Protocols : get_protocol_status(p)
    \/ process_restart

ServerSpec == ServerInit /\ [][ServerNext]_vars

TypeOK ==
    /\ \A p \in Protocols : db[p].status \in ProtocolStatus
    /\ nreq \in 0..MaxRequests
    /\ Len(jobs) <= nreq

\* ================================================================ claims
InFlightJobs(p) ==
    {j \in DOMAIN jobs : jobs[j].proto = p /\ jobs[j].pc # "done"}

InFlightInstalls(p) == {j \in InFlightJobs(p) : jobs[j].kind = "install"}

\* a start / stop / restart handler between its read and its response
InFlightHandler(p) == IF req.pc = "act" /\ req.proto = p THEN 1 ELSE 0

ServiceOps == {"start", "stop", "restart"}

\* the row the handler read at its top
Read == CHOOSE row \in req.protocol : TRUE

\* the row job j's last write left
Final(j) == CHOOSE row \in jobs[j].final : TRUE

Done(j) == jobs[j].pc = "done"

\* C1: for every protocol at most one lifecycle operation (install job,
\* uninstall job, start, stop, restart) is in flight at any time.
C1_OneInFlight ==
    \A p \in Protocols : Cardinality(InFlightJobs(p)) + InFlightHandler(p) <= 1

\* C2: a second install(p) issued before the first install job has completed
\* does not start a second background job: no two install jobs of one
\* protocol are ever in flight together.
C2_NoSecondInstallJob ==
    \A p \in Protocols : \A i, j \in InFlightInstalls(p) : i = j

\* C3: a start, stop, restart or uninstall that reads a row whose status is
\* INSTALLING is rejected at once: the handler does not go on to a plugin
\* call or to scheduling a job, and it called no capability.
C3_BusyRejected ==
    (/\ req.op \in ServiceOps \cup {"uninstall"}
     /\ req.protocol # {}
     /\ Read.status = INSTALLING)
    => (/\ req.pc = "idle"
        /\ req.calls = <<>>
        /\ req.result \notin {"JobAccepted", "Success"})

\* C4: in every reachable state, status RUNNING implies is_installed.
C4_RunningImpliesInstalled ==
    \A p \in Protocols : db[p].status = RUNNING => db[p].is_installed

\* C5: in every reachable state, status UNINSTALLED implies is_installed
\* false and is_enabled false.
C5_UninstalledImpliesNotInstalledNotEnabled ==
    \A p \in Protocols :
        db[p].status = UNINSTALLED => ~db[p].is_installed /\ ~db[p].is_enabled

\* C5 witness: an uninstall job removed a protocol that an install job had
\* installed and enabled, and the row reads UNINSTALLED.
C5_Witness ==
    \E i, j \in DOMAIN jobs :
        /\ jobs[i].proto = jobs[j].proto
        /\ jobs[i].kind = "install" /\ Done(i)
        /\ Final(i).status = RUNNING /\ Final(i).is_enabled
        /\ jobs[j].kind = "uninstall" /\ Done(j)
        /\ Final(j).status = UNINSTALLED
        /\ db[jobs[j].proto].status = UNINSTALLED

\* C6: while an install or uninstall job is in flight (scheduled, final
\* status not yet written) the persisted status of its protocol is INSTALLING.
C6_InstallingUntilJobEnds ==
    \A j \in DOMAIN jobs : ~Done(j) => db[jobs[j].proto].status = INSTALLING

\* C7: an install job whose detect_existing answered false and whose
\* install_packages returned false ends with the row at status ERROR,
\* is_installed false and a non-empty error_message.
C7_InstallPackagesFailure ==
    \A j \in DOMAIN jobs :
        (/\ jobs[j].kind = "install"
         /\ jobs[j].calls = << <<"detect_existing", "false">>,
                               <<"install_packages", "false">> >>)
        => (/\ Done(j)
            /\ Final(j).status = ERROR
            /\ ~Final(j).is_installed
            /\ Final(j).error_message # Null)

\* C8: an install job whose detect_existing reports the software present
\* ends there: it writes status STOPPED with is_installed true and calls
\* neither install_packages nor configure nor start_service.
C8_DetectExistingShortCircuit ==
    \A j \in DOMAIN jobs :
        (/\ jobs[j].kind = "install"
         /\ jobs[j].calls # <<>>
         /\ jobs[j].calls[1] = <<"detect_existing", "true">>)
        => (/\ Done(j)
            /\ jobs[j].calls = << <<"detect_existing", "true">> >>
            /\ Final(j).status = STOPPED
            /\ Final(j).is_installed)

C8_Witness ==
    \E j \in DOMAIN jobs :
        /\ jobs[j].kind = "install" /\ Done(j)
        /\ jobs[j].calls = << <<"detect_existing", "true">> >>

\* the capability answers of a fully successful install
HappyInstall ==
    << <<"detect_existing", "false">>, <<"install_packages", "true">>,
       <<"configure", "true">>, <<"start_service", "true">> >>

\* C9: an accepted install whose plugin answers detect_existing false and
\* install_packages, configure, start_service true leaves the row at status
\* RUNNING, is_installed true, is_enabled true, error_message null.
C9_HappyInstallFinalState ==
    \A j \in DOMAIN jobs :
        (jobs[j].kind = "install" /\ jobs[j].calls = HappyInstall)
        => (/\ Done(j)
            /\ Final(j).status = RUNNING
            /\ Final(j).is_installed
            /\ Final(j).is_enabled
            /\ Final(j).error_message = Null)

\* C9 witness: the first request of a run, on the seeded row, was such an install
C9_Witness ==
    /\ jobs # <<>>
    /\ jobs[1].kind = "install" /\ jobs[1].calls = HappyInstall
    /\ nreq = 1
    /\ db[jobs[1].proto].status = RUNNING

\* C10: a start, stop or restart entering on a row with is_installed false
\* answers with the precondition failure in that same step, calls no
\* capability, schedules nothing and leaves every row as it was.
C10_NotInstalledRejected ==
    [][(/\ nreq' = nreq + 1
        /\ req'.op \in ServiceOps
        /\ ~db[req'.proto].is_installed)
       => (/\ req'.pc = "idle"
           /\ req'.result = "PreconditionFailed"
           /\ req'.calls = <<>>
           /\ db' = db
           /\ jobs' = jobs)]_vars

\* C10 witness: a start / stop / restart was refused on a row that is not installed
C10_Witness ==
    /\ req.op \in ServiceOps
    /\ req.result = "PreconditionFailed"
    /\ ~Read.is_installed

\* a handler or a job made a capability call in this step
HandlerCalled == req'.calls # req.calls /\ req'.calls # <<>>
JobCalled(j) == j \in DOMAIN jobs /\ jobs'[j].calls # jobs[j].calls

\* the call made in this step, as <<capability, answer>>
HandlerCall == req'.calls[Len(req'.calls)]
JobCall(j) == jobs'[j].calls[Len(jobs'[j].calls)]

\* C11: updateConfig on an installed RUNNING protocol calls configure once
\* and then restart_service once; when configure succeeds the status stays
\* as it was (RUNNING), when configure fails the status becomes ERROR.
C11_ReconfigureRunning ==
    [][(req'.op = "update_config" /\ HandlerCalled)
       => LET c == req'.calls
              p == req'.proto
          IN /\ c[1][1] = "configure"
             /\ Len(c) <= 2
             /\ Len(c) = 2 => c[1][2] = "true" /\ c[2][1] = "restart_service"
             /\ c[1][2] = "true" => db'[p].status = db[p].status
             /\ c[1][2] # "true" => db'[p].status = ERROR]_vars

\* C12: a successful install followed by a successful uninstall, and nothing
\* else, leaves the row equal to the seeded row: status UNINSTALLED,
\* is_installed false, is_enabled false and every other field as seeded.
C12_InstallUninstallRoundTrip ==
    (/\ nreq = 2 /\ req.pc = "idle" /\ Len(jobs) = 2
     /\ jobs[1].kind = "install" /\ jobs[2].kind = "uninstall"
     /\ jobs[1].proto = jobs[2].proto
     /\ Done(1) /\ Final(1).is_installed
     /\ Done(2) /\ Final(2).status = UNINSTALLED)
    => LET p == jobs[1].proto
       IN /\ db[p].status = UNINSTALLED
          /\ ~db[p].is_installed
          /\ ~db[p].is_enabled
          /\ db[p] = Protocol(DEFAULT_PROTOCOLS[p])

\* the edges of the specified state machine
Edges ==
    {<<UNINSTALLED, INSTALLING>>,
     <<INSTALLING, RUNNING>>, <<INSTALLING, STOPPED>>,
     <<INSTALLING, ERROR>>, <<INSTALLING, UNINSTALLED>>,
     <<RUNNING, STOPPED>>, <<STOPPED, RUNNING>>,
     <<RUNNING, INSTALLING>>, <<STOPPED, INSTALLING>>, <<ERROR, INSTALLING>>}
    \cup {<<s, ERROR>> : s \in ProtocolStatus}

\* C13: every change of a protocol's persisted status follows an edge of
\* the specified state machine.
C13_StatusEdges ==
    [][\A p \in Protocols :
          db'[p].status # db[p].status
          => <<db[p].status, db'[p].status>> \in Edges]_vars

\* C14: when a plugin step of an operation (install job, uninstall job,
\* start, stop, restart, reconfigure) raises, the operation leaves the
\* protocol at status ERROR with an error_message.
C14_ExceptionBecomesError ==
    [][/\ (HandlerCalled /\ HandlerCall[2] = "raise")
           => (/\ db'[req'.proto].status = ERROR
               /\ db'[req'.proto].error_message # Null)
       /\ \A j \in DOMAIN jobs :
           (JobCalled(j) /\ JobCall(j)[2] = "raise")
           => (/\ db'[jobs[j].proto].status = ERROR
               /\ db'[jobs[j].proto].error_message # Null)]_vars

\* C15: a start, stop or restart whose capability returns false reports
\* failure and writes nothing: every row is as it was before the step.
C15_ServiceFailureNoChange ==
    [][(/\ req'.op \in ServiceOps
        /\ HandlerCalled
        /\ HandlerCall[2] = "false")
       => (/\ req'.result = "Failure"
           /\ req'.pc = "idle"
           /\ db' = db)]_vars

\* C15 witness: a start / stop / restart on an installed real protocol failed
C15_Witness ==
    /\ req.op \in ServiceOps
    /\ req.result = "Failure"
    /\ req.calls # <<>> /\ req.calls[1][2] = "false"
    /\ Read.is_installed

\* C16: a start, stop or restart whose capability returns true sets
\* (RUNNING, enabled), (STOPPED, not enabled), (RUNNING, enabled)
\* respectively and leaves is_installed, config, port and ssl_enabled alone.
C16_ServiceSuccessFrame ==
    [][(/\ req'.op \in ServiceOps
        /\ HandlerCalled
        /\ HandlerCall[2] = "true")
       => LET p == req'.proto
          IN /\ req'.op = "start" =>
                    db'[p].status = RUNNING /\ db'[p].is_enabled
             /\ req'.op = "stop" =>
                    db'[p].status = STOPPED /\ ~db'[p].is_enabled
             /\ req'.op = "restart" =>
                    db'[p].status = RUNNING /\ db'[p].is_enabled
             /\ db'[p].is_installed = db[p].is_installed
             /\ db'[p].config_json = db[p].config_json
             /\ db'[p].port = db[p].port
             /\ db'[p].ssl_enabled = db[p].ssl_enabled]_vars

\* C16 witness: a stop succeeded on a protocol whose config was changed before
C16_Witness ==
    /\ req.op = "stop" /\ req.result = "Success"
    /\ db[req.proto].status = STOPPED
    /\ db[req.proto].config_json # Null

\* C17: an uninstall job calls stop_service and then uninstall; when
\* uninstall returns true the row becomes UNINSTALLED, not installed, not
\* enabled; when it returns false or raises the row becomes ERROR and
\* is_installed is left as it was.
C17_UninstallJob ==
    [][\A j \in DOMAIN jobs :
          (JobCalled(j) /\ jobs[j].kind = "uninstall" /\ JobCall(j)[1] = "uninstall")
          => LET p == jobs[j].proto
             IN /\ Len(jobs[j].calls) = 1
                /\ jobs[j].calls[1][1] = "stop_service"
                /\ jobs'[j].pc = "done"
                /\ JobCall(j)[2] = "true" =>
                       (/\ db'[p].status = UNINSTALLED
                        /\ ~db'[p].is_installed
                        /\ ~db'[p].is_enabled)
                /\ JobCall(j)[2] # "true" =>
                       (/\ db'[p].status = ERROR
                        /\ db'[p].is_installed = db[p].is_installed)]_vars

\* C17 witness: after an uninstall job that failed, a second uninstall
\* request was accepted
C17_Witness ==
    /\ Len(jobs) = 3
    /\ jobs[2].kind = "uninstall" /\ Done(2) /\ Final(2).status = ERROR
    /\ Len(jobs[2].calls) = 2 /\ jobs[2].calls[2][1] = "uninstall"
    /\ jobs[3].kind = "uninstall" /\ jobs[3].proto = jobs[2].proto

\* C20: an install job whose install_packages and configure succeed and
\* whose start_service returns false ends at STOPPED, installed, not
\* enabled; one whose configure returns false ends at ERROR with
\* is_installed false and never calls start_service.
C20_InstallStartOrConfigureFailure ==
    \A j \in DOMAIN jobs :
        /\ (/\ jobs[j].kind = "install"
            /\ Len(jobs[j].calls) = 4
            /\ jobs[j].calls[4] = <<"start_service", "false">>)
           => (/\ Done(j)
               /\ Final(j).status = STOPPED
               /\ Final(j).is_installed
               /\ ~Final(j).is_enabled)
        /\ (/\ jobs[j].kind = "install"
            /\ Len(jobs[j].calls) >= 3
            /\ jobs[j].calls[3] = <<"configure", "false">>)
           => (/\ Done(j)
               /\ Len(jobs[j].calls) = 3
               /\ Final(j).status = ERROR
               /\ ~Final(j).is_installed)

\* C18: under fair scheduling of the background jobs, a protocol whose
\* status is INSTALLING eventually has another status persisted.
C18_InstallingEnds ==
    \A p \in Protocols :
        (db[p].status = INSTALLING) ~> (db[p].status # INSTALLING)

\* C18 witness: an install job and an uninstall job of one protocol both ran
\* to their end and the status is no longer INSTALLING
C18_Witness ==
    /\ Len(jobs) = 2
    /\ jobs[1].kind = "install" /\ jobs[2].kind = "uninstall"
    /\ jobs[1].proto = jobs[2].proto
    /\ Done(1) /\ Done(2)
    /\ db[jobs[1].proto].status # INSTALLING

C21_RegistryTotalOnCatalog ==
    call.fn = "get_protocol_installer"
    => IF call.args[1] \in DOMAIN DEFAULT_PROTOCOLS
       THEN call.result.raised = "none" /\ call.result.methods = Capabilities
       ELSE call.result.raised = "ValueError: Unknown protocol"

\* C22: whenever the executed command exits with a non-zero status the
\* executor returns success false with the captured stdout and stderr, for
\* either value of check, and it does not raise.
C22_NonZeroExitIsFailure ==
    (/\ call.fn = "run_command"
     /\ call.trace[1].found
     /\ call.trace[1].returncode # 0)
    => call.result = [success |-> "false",
                      stdout |-> call.trace[1].stdout,
                      stderr |-> call.trace[1].stderr]

\* the first of apt-get, yum, dnf that is on the host, "none" without one
FirstPresent(h) ==
    IF "apt-get" \in h.binaries THEN "apt-get"
    ELSE IF "yum" \in h.binaries THEN "yum"
    ELSE IF "dnf" \in h.binaries THEN "dnf"
    ELSE "none"

\* C23: install_packages uses the first of apt-get, yum, dnf present on the
\* host (yum only without apt-get, dnf only without apt-get and yum) and
\* returns false when none is present.
C23_FirstPresentManager ==
    call.fn = "install_packages"
    => /\ call.result.manager = FirstPresent(host)
       /\ FirstPresent(host) = "none" => call.result.result = "false"

\* how often the sentinel block occurs in sshd_config
SentinelCount ==
    Cardinality({i \in DOMAIN host.sshd_config : host.sshd_config[i] = sftp_config})

\* C25 as stated: after any number n >= 1 of configure calls the sentinel
\* block occurs exactly once in sshd_config, and the content after n calls
\* is the content after one call.
C25_SentinelExactlyOnce ==
    /\ [](nreq >= 1 => SentinelCount = 1)
    /\ [][nreq >= 1 => host'.sshd_config = host.sshd_config]_vars

\* C25 amended: after any number n >= 1 of configure calls the sentinel
\* block occurs exactly once in sshd_config unless the file could not be
\* written, in which case it is as it was and holds no block; the content
\* after n calls is the content after one call.
C25_IdempotentConfigure ==
    /\ [](nreq >= 1 => \/ SentinelCount = 1
                       \/ SentinelCount = 0 /\ ~host.writable)
    /\ [][nreq >= 1 => host'.sshd_config = host.sshd_config]_vars

\* C25 witness: two configure calls on a host without sshd_config wrote the
\* block once
C25_Witness ==
    /\ nreq = 2
    /\ call.fn = "configure" /\ call.result = "true"
    /\ host.sshd_config = <<sftp_config>>

\* C24: seeding an empty store creates the seven catalog rows, each
\* UNINSTALLED and not installed; seeding again at a later process start,
\* after any lifecycle operations, adds no row and changes no row.
C24_SeedingIdempotent ==
    /\ LET first == initialize_protocols(EmptyStore, DEFAULT_PROTOCOLS)
       IN /\ Cardinality(DOMAIN first) = 7
          /\ \A n \in DOMAIN first :
                /\ first[n].name = n
                /\ first[n].status = UNINSTALLED
                /\ ~first[n].is_installed
          /\ initialize_protocols(first, DEFAULT_PROTOCOLS) = first
    /\ [][req'.op = "startup" => DOMAIN db' = DOMAIN db /\ db' = db]_vars

\* C24 witness: the process was started again while ftp was installed and
\* RUNNING with a stored configuration, and the row is still that
C24_Witness ==
    /\ req.op = "startup"
    /\ db["ftp"].status = RUNNING /\ db["ftp"].is_installed
    /\ db["ftp"].is_enabled
    /\ db["ftp"].config_json = "new_config"

\* C26: the status getStatus answers is the persisted status of the row,
\* whether or not the protocol is installed (INSTALLING during an install,
\* ERROR after a failed one).
C26_StatusIsPersisted ==
    req.op = "status" => req.result = Read.status

\* C30: INSTALLING without a job, as a process restart leaves it, can be
\* left through a later request: install (on a row that is not installed)
\* and uninstall (on an installed row) are accepted in that state and
\* schedule a job, and the last write of every job is a status other than
\* INSTALLING.
Orphaned(p) == db[p].status = INSTALLING /\ InFlightJobs(p) = {}

C27_ApplyFailureKeepsConfig ==
    (req.op = "update_config" /\ req.result = "ApplyFailure")
    => /\ db[req.proto].config_json = Read.config_json
       /\ db[req.proto].port = Read.port
       /\ db[req.proto].ssl_enabled = Read.ssl_enabled

\* C28: in every reachable state, is_enabled implies is_installed.
C28_EnabledImpliesInstalled ==
    \A p \in Protocols : db[p].is_enabled => db[p].is_installed

\* C29: the stub plugin's protocol is never is_installed and never RUNNING,
\* whatever requests are made, and every install job of it that ran to its
\* end left the status ERROR.
C29_StubNeverInstalled ==
    /\ ~db["nfs"].is_installed
    /\ db["nfs"].status # RUNNING
    /\ \A j \in DOMAIN jobs :
          (jobs[j].proto = "nfs" /\ jobs[j].kind = "install" /\ Done(j))
          => Final(j).status = ERROR

\* C29 witness: an accepted install of nfs ran to its end, and a start was
\* then turned away
C29_Witness ==
    /\ Len(jobs) >= 1
    /\ jobs[1].proto = "nfs" /\ jobs[1].kind = "install" /\ Done(1)
    /\ db["nfs"].status = ERROR
    /\ req.op = "start" /\ req.proto = "nfs"
    /\ req.result = "PreconditionFailed"

====
